---- MODULE Spec2Model ----
(***************************************************************************)
(* A model of the moui widget view: the widget tree, the visibility/clip   *)
(* planner (WidgetView::PopulateWidgetList), the render executor           *)
(* (WidgetView::Render with PopAndFinalizeWidgetItems), the hit test       *)
(* (WidgetView::ShouldHandleEvent) and redraw coalescing                    *)
(* (BaseView::Redraw).                                                      *)
(*                                                                         *)
(* Coordinates are whole points and scales are positive whole numbers      *)
(* (widget.h:387 "This value should always be positive").                  *)
(***************************************************************************)
EXTENDS Integers, Sequences, FiniteSets, TLC

\* ------------------------------------------------------------------ bounds
\* Number of widgets besides the root widget.
NumWidgets == 3
\* Size of the view given to WidgetView::SetBounds.
ViewWidth == 4
ViewHeight == 3
\* Threads that call Redraw, Redraw calls they make in total, and views.
NumThreads == 2
MaxCalls == 4
NumViews == 2
\* Length of a child list in the specification of the tree operations.
MaxChildren == 2

\* ----------------------------------------------------------------- widgets
root_widget_ == 0
NoWidget == -1

NoThread == 0
\* The widget view itself (`this` in WidgetView), no widget view (nullptr),
\* and a measured_scale_ that is reset.
this_view == 1
NoView == 0
Unmeasured == -1

Widgets == root_widget_ .. NumWidgets
Threads == 1..NumThreads
Views == 1..NumViews
ChildWidgets == Widgets \ {root_widget_}

VARIABLES
    children_,          \* Widget::children_ of every widget
    hidden_,            \* Widget::hidden_
    x_, y_,             \* resolved position in points (GetX, GetY)
    width_, height_,    \* resolved size in points (GetWidth, GetHeight)
    scale_,             \* Widget::scale_
    view_width, view_height,   \* NativeView bounds of the widget view
    pc,                 \* position of the render thread inside Render()
    widget_list,        \* Render(): WidgetList widget_list
    rendering_stack,    \* Render(): WidgetItemStack rendering_stack
    item_index,         \* Render(): position of the onscreen loop in widget_list
    nvg_states,         \* the drawing context's stack of saved states
    hook_log,           \* the hooks invoked in this Render pass, in order
    opened,             \* the widgets of the items pushed on rendering_stack, in order
    finalized,          \* the widgets of the items PopAndFinalizeWidgetItems deleted, in order
    event_responder_,   \* WidgetView::event_responder_
    hit_claiming,       \* the widgets whose ShouldHandleEvent(location) is true in the running call
    hit_returned,       \* what WidgetView::ShouldHandleEvent(location) has returned
    hit_previous,       \* event_responder_ when that call began
    is_redrawing_,      \* BaseView::is_redrawing_ of every view
    waiting_for_redraw_,  \* BaseView::waiting_for_redraw_ of every view
    redraw_mutex,       \* the thread holding redraw_mutex, NoThread when it is free
    rpc,                \* position of every thread inside Redraw()
    rview,              \* the view every thread's Redraw() runs on
    nested,             \* the thread's Redraw() was called from inside its RenderNativeView
    recursive,          \* the thread's Redraw() is the call of part_001:105
    calls_made,         \* Redraw() calls every thread has made so far
    passes,             \* RenderNativeView passes begun on every view
    started,            \* callers' Redraw() calls that found no redraw in progress, per view
    arrived_first,      \* callers' Redraw() calls that found the view's first pass in progress
    arrived_later,      \* callers' Redraw() calls that found a later pass in progress
    unserved,           \* per view: a caller's Redraw() call was made and no RenderNativeView pass has begun since
    widget_view_,       \* Widget::widget_view_ of every widget
    parent_,            \* Widget::parent_
    measured_scale_,    \* Widget::measured_scale_, Unmeasured while it is reset
    handled_to,         \* the widgets whose HandleEvent(event) the running WidgetView::HandleEvent called, in order
    handled_previous,   \* event_responder_ when that call began
    removed_widget,     \* the widget the running RemoveFromParent() was called on
    removed_returned,   \* what that call returned
    removed_children,   \* children_ when that call began
    removed_parent,     \* parent_ of the widget when that call began
    not_ready           \* the widgets whose WidgetViewWillRender(context) returned false in the running hook pass

treeVars == <<children_, hidden_, x_, y_, width_, height_, scale_, view_width, view_height>>
renderVars == <<pc, widget_list, rendering_stack, item_index, nvg_states, hook_log, opened, finalized>>
hitVars == <<event_responder_, hit_claiming, hit_returned, hit_previous>>
linkVars == <<widget_view_, parent_, measured_scale_>>
eventVars == <<handled_to, handled_previous>>
hookVars == <<not_ready>>
removeVars == <<removed_widget, removed_returned, removed_children, removed_parent>>
redrawVars == <<is_redrawing_, waiting_for_redraw_, redraw_mutex, rpc, rview, nested, recursive, calls_made, passes, started, arrived_first, arrived_later, unserved>>

\* ------------------------------------------------------------ tree helpers
RECURSIVE SeqToSet(_)
SeqToSet(s) == IF s = <<>> THEN {} ELSE {Head(s)} \cup SeqToSet(Tail(s))

\* The widget whose child list holds w, NoWidget when there is none.
ParentOf(w) == IF \E p \in Widgets : w \in SeqToSet(children_[p]) THEN CHOOSE p \in Widgets : w \in SeqToSet(children_[p]) ELSE NoWidget

RECURSIVE Ancestors(_)
Ancestors(w) == IF ParentOf(w) = NoWidget THEN {} ELSE {ParentOf(w)} \cup Ancestors(ParentOf(w))

\* Widgets reachable from the root widget through child lists.
Attached == {w \in Widgets : w = root_widget_ \/ root_widget_ \in Ancestors(w)}

Depth(w) == Cardinality(Ancestors(w))

\* ----------------------------------------------------------- Widget (node)
\* A hidden test that never reports a widget hidden.
IsHiddenNever(w) == FALSE
IsHidden(w) == hidden_[w]
GetWidth(w) == width_[w]
GetHeight(w) == height_[w]
GetX(w) == x_[w]
GetY(w) == y_[w]
scale(w) == scale_[w]
children(w) == children_[w]

Max(a, b) == IF a >= b THEN a ELSE b
Min(a, b) == IF a <= b THEN a ELSE b

\* ------------------------------------------------- Visibility/clip planner
\* The value of a null WidgetItem pointer.
NullItem == [widget |-> NoWidget, origin |-> <<0, 0>>, width |-> 0, height |-> 0, level |-> 0 - 1, parent_item |-> NoWidget, scale |-> 0, translated_origin |-> <<0, 0>>, scissor_origin |-> <<0, 0>>, scissor_width |-> 0, scissor_height |-> 0]

\* A translated origin that adds the widget's position without the
\* inherited scale.
TranslatedOriginUnscaled(parent_item, axis, kWidgetPos, scl) ==
    IF parent_item = NullItem THEN 0 ELSE parent_item.translated_origin[axis] + kWidgetPos

\* translated_origin on one axis: widget_view.cc:95-101.
TranslatedOrigin(parent_item, axis, kWidgetPos, scl) ==
    IF parent_item = NullItem THEN 0 ELSE parent_item.translated_origin[axis] + kWidgetPos * scl

\* A scissor origin that is the parent's, whatever the widget's position.
ScissorOriginOfParent(parent_item, axis, translated) ==
    IF parent_item = NullItem THEN 0 ELSE parent_item.scissor_origin[axis]

\* scissor_origin on one axis: widget_view.cc:96, 103-104, 107-108.
ScissorOrigin(parent_item, axis, translated) ==
    IF parent_item = NullItem THEN 0 ELSE Max(parent_item.scissor_origin[axis], translated)

\* A scissor extent that is the widget's scaled extent, not cut at the
\* parent's scissor.
ScissorExtentUncut(parent_item, axis, parent_extent, scissor_origin, kScaledExtent) ==
    kScaledExtent

\* scissor_width / scissor_height: widget_view.cc:97-98, 115-121, 125-131.
ScissorExtent(parent_item, axis, parent_extent, scissor_origin, kScaledExtent) ==
    IF parent_item = NullItem THEN kScaledExtent
    ELSE LET kParentOrigin == parent_item.scissor_origin[axis]
             first == Min(kScaledExtent, kParentOrigin + parent_extent - scissor_origin)
         IN Min(first, scissor_origin + kScaledExtent - kParentOrigin)

\* The early returns of widget_view.cc:105-113 and 122-133 on one axis.
BeyondView(parent_item, scissor_origin, view_extent) ==
    parent_item # NullItem /\ scissor_origin >= view_extent

BeforeScissor(parent_item, translated, kScaledExtent, scissor_origin) ==
    parent_item # NullItem /\ (translated + kScaledExtent - 1) < scissor_origin

\* The empty-scissor test without its `<= 0` comparison.
EmptyScissorNoExtentTest(parent_item, scissor_origin, scissor_extent) ==
    parent_item # NullItem /\ (scissor_origin + scissor_extent - 1) < 0

EmptyScissor(parent_item, scissor_origin, scissor_extent) ==
    parent_item # NullItem /\ (scissor_extent <= 0 \/ (scissor_origin + scissor_extent - 1) < 0)

\* The WidgetItem PopulateWidgetList creates for `widget`, NullItem when it
\* returns before creating one.
NewWidgetItem(level, scl, widget, parent_item) ==
    IF IsHidden(widget) THEN NullItem
    ELSE IF GetWidth(widget) <= 0 THEN NullItem
    ELSE IF GetHeight(widget) <= 0 THEN NullItem
    ELSE
    LET kWidgetWidth == GetWidth(widget)
        kWidgetHeight == GetHeight(widget)
        kWidgetX == GetX(widget)
        kWidgetY == GetY(widget)
        kScaledWidgetWidth == kWidgetWidth * scl * scale(widget)
        kScaledWidgetHeight == kWidgetHeight * scl * scale(widget)
        tx == TranslatedOrigin(parent_item, 1, kWidgetX, scl)
        ty == TranslatedOrigin(parent_item, 2, kWidgetY, scl)
        sx == ScissorOrigin(parent_item, 1, tx)
        sy == ScissorOrigin(parent_item, 2, ty)
        sw == ScissorExtent(parent_item, 1, parent_item.scissor_width, sx, kScaledWidgetWidth)
        sh == ScissorExtent(parent_item, 2, parent_item.scissor_height, sy, kScaledWidgetHeight)
    IN  IF BeyondView(parent_item, sx, view_width) THEN NullItem
        ELSE IF BeyondView(parent_item, sy, view_height) THEN NullItem
        ELSE IF BeforeScissor(parent_item, tx, kScaledWidgetWidth, sx) \/ BeforeScissor(parent_item, ty, kScaledWidgetHeight, sy) THEN NullItem
        ELSE IF EmptyScissor(parent_item, sx, sw) THEN NullItem
        ELSE IF EmptyScissor(parent_item, sy, sh) THEN NullItem
        ELSE [widget |-> widget, origin |-> <<kWidgetX, kWidgetY>>, width |-> kWidgetWidth, height |-> kWidgetHeight, level |-> level, parent_item |-> parent_item.widget, scale |-> scale(widget), translated_origin |-> <<tx, ty>>, scissor_origin |-> <<sx, sy>>, scissor_width |-> sw, scissor_height |-> sh]

\* The level and the scale PopulateWidgetList passes to the children.
ChildLevel(level) == level + 1
ChildWidgetScale(scl, widget) == scl * scale(widget)

RECURSIVE PopulateWidgetList(_, _, _, _, _)
RECURSIVE PopulateChildren(_, _, _, _, _)

\* The loop `for (Widget* child : widget->children())` over the children
\* still to visit.
PopulateChildren(level, scl, list, kids, item) ==
    IF kids = <<>> THEN list
    ELSE PopulateChildren(level, scl, PopulateWidgetList(level, scl, list, Head(kids), item), Tail(kids), item)

\* A planner that adds a widget's item after the items of its children.
PopulateWidgetListChildrenFirst(level, scl, list, widget, parent_item) ==
    LET item == NewWidgetItem(level, scl, widget, parent_item)
    IN  IF item = NullItem THEN list
        ELSE Append(PopulateChildren(ChildLevel(level), ChildWidgetScale(scl, widget), list, children(widget), item), item)

\* widget_list after PopulateWidgetList(level, scale, &widget_list, widget,
\* parent_item) when it was `list` before.
PopulateWidgetList(level, scl, list, widget, parent_item) ==
    LET item == NewWidgetItem(level, scl, widget, parent_item)
    IN  IF item = NullItem THEN list
        ELSE PopulateChildren(ChildLevel(level), ChildWidgetScale(scl, widget), Append(list, item), children(widget), item)

\* ---------------------------------------------------------- tree operations
\* Widget::AddChild(child) on `parent`.  The caller adds a widget that is in
\* no child list yet.
AddChild(parent, child) ==
    /\ pc = "idle"
    /\ children_' = [children_ EXCEPT ![parent] = Append(@, child)]
    /\ UNCHANGED <<hidden_, x_, y_, width_, height_, scale_, view_width, view_height>>
    /\ UNCHANGED <<renderVars, hitVars, redrawVars, linkVars, eventVars, removeVars, hookVars>>

\* Widget::SetHidden(hidden).
SetHidden(w, hidden) ==
    /\ pc = "idle"
    /\ hidden_' = [hidden_ EXCEPT ![w] = hidden]
    /\ UNCHANGED <<children_, x_, y_, width_, height_, scale_, view_width, view_height>>
    /\ UNCHANGED <<renderVars, hitVars, redrawVars, linkVars, eventVars, removeVars, hookVars>>

\* Widget::SetBounds(x, y, width, height).
SetBounds(w, x, y, width, height) ==
    /\ pc = "idle"
    /\ x_' = [x_ EXCEPT ![w] = x]
    /\ y_' = [y_ EXCEPT ![w] = y]
    /\ width_' = [width_ EXCEPT ![w] = width]
    /\ height_' = [height_ EXCEPT ![w] = height]
    /\ UNCHANGED <<children_, hidden_, scale_, view_width, view_height>>
    /\ UNCHANGED <<renderVars, hitVars, redrawVars, linkVars, eventVars, removeVars, hookVars>>

\* The widget and all its descendants.
RECURSIVE SubtreeOf(_)
SubtreeOf(w) == {w} \cup UNION {SubtreeOf(c) : c \in SeqToSet(children_[w])}

\* measured_scale_ after Widget::ResetMeasuredScaleRecursively(widget).
ResetMeasuredScaleRecursively(widget) ==
    [v \in Widgets |-> IF v \in SubtreeOf(widget) THEN Unmeasured ELSE measured_scale_[v]]

\* Widget::set_scale(scale): the scale changes and the measured scale of the
\* widget and of its descendants is reset.
set_scale(w, s) ==
    /\ pc = "idle"
    /\ scale_' = [scale_ EXCEPT ![w] = s]
    /\ measured_scale_' = ResetMeasuredScaleRecursively(w)
    /\ UNCHANGED <<widget_view_, parent_>>
    /\ UNCHANGED <<children_, hidden_, x_, y_, width_, height_, view_width, view_height>>
    /\ UNCHANGED <<renderVars, hitVars, redrawVars, eventVars, removeVars, hookVars>>

\* What Widget::GetMeasuredScale() returns on `w`: the memoized value, or
\* the widget's scale times the measured scale of its parent.
RECURSIVE MeasuredScale(_)
MeasuredScale(w) ==
    IF measured_scale_[w] # Unmeasured THEN measured_scale_[w]
    ELSE IF parent_[w] = NoWidget THEN scale_[w]
    ELSE scale_[w] * MeasuredScale(parent_[w])

\* The widgets whose measured_scale_ a call of GetMeasuredScale() on `w`
\* computes.
RECURSIVE MeasuredChain(_)
MeasuredChain(w) ==
    IF measured_scale_[w] # Unmeasured THEN {}
    ELSE {w} \cup (IF parent_[w] = NoWidget THEN {} ELSE MeasuredChain(parent_[w]))

\* Widget::GetMeasuredScale() on `w`.
GetMeasuredScale(w) ==
    /\ pc = "idle"
    /\ measured_scale_' = [v \in Widgets |-> IF v \in MeasuredChain(w) THEN MeasuredScale(v) ELSE measured_scale_[v]]
    /\ UNCHANGED <<widget_view_, parent_>>
    /\ UNCHANGED <<treeVars, renderVars, hitVars, redrawVars, eventVars, removeVars, hookVars>>

\* children_ of a widget after Widget::RemoveChild(child) found the child.
RECURSIVE RemoveChild(_, _)
RemoveChild(kids, child) ==
    IF kids = <<>> THEN <<>>
    ELSE IF Head(kids) = child THEN Tail(kids)
    ELSE <<Head(kids)>> \o RemoveChild(Tail(kids), child)

\* Widget::RemoveFromParent() on `w`: fails without a parent and when the
\* parent's child list does not hold the widget; otherwise the widget leaves
\* the list and its parent is cleared.
RemoveFromParent(w) ==
    /\ pc = "idle"
    /\ pc' = "removed"
    /\ removed_widget' = w
    /\ removed_children' = children_
    /\ removed_parent' = parent_[w]
    /\ IF parent_[w] = NoWidget
       THEN /\ removed_returned' = FALSE
            /\ UNCHANGED <<children_, parent_>>
       ELSE IF w \notin SeqToSet(children_[parent_[w]])
       THEN /\ removed_returned' = FALSE
            /\ UNCHANGED <<children_, parent_>>
       ELSE /\ removed_returned' = TRUE
            /\ children_' = [children_ EXCEPT ![parent_[w]] = RemoveChild(@, w)]
            /\ parent_' = [parent_ EXCEPT ![w] = NoWidget]
    /\ UNCHANGED <<widget_view_, measured_scale_>>
    /\ UNCHANGED <<hidden_, x_, y_, width_, height_, scale_, view_width, view_height>>
    /\ UNCHANGED <<widget_list, rendering_stack, item_index, nvg_states, hook_log, opened, finalized>>
    /\ UNCHANGED <<hitVars, redrawVars, eventVars, hookVars>>

\* RemoveFromParent() has returned.
RemoveFromParentReturn ==
    /\ pc = "removed"
    /\ pc' = "idle"
    /\ removed_widget' = NoWidget
    /\ removed_returned' = FALSE
    /\ removed_children' = <<>>
    /\ removed_parent' = NoWidget
    /\ UNCHANGED <<widget_list, rendering_stack, item_index, nvg_states, hook_log, opened, finalized>>
    /\ UNCHANGED <<treeVars, hitVars, redrawVars, linkVars, eventVars, hookVars>>

\* WidgetView::SetBounds(x, y, width, height): the view and its root widget
\* take the size.
WidgetViewSetBounds(width, height) ==
    /\ pc = "idle"
    /\ view_width' = width
    /\ view_height' = height
    /\ width_' = [width_ EXCEPT ![root_widget_] = width]
    /\ height_' = [height_ EXCEPT ![root_widget_] = height]
    /\ UNCHANGED <<children_, hidden_, x_, y_, scale_>>
    /\ UNCHANGED <<renderVars, hitVars, redrawVars, linkVars, eventVars, removeVars, hookVars>>

\* ------------------------------------------------------- drawing context
\* The state nvgBeginFrame leaves: no translation, scale 1.
NvgIdentity == [ox |-> 0, oy |-> 0, sc |-> 1]

\* nvgSave / nvgRestore / nvgTranslate / nvgScale on the stack of states,
\* whose last element is the current state.
nvgSave(states) == Append(states, states[Len(states)])
\* An nvgRestore that leaves the save point open.
nvgRestoreNothing(states) == states
nvgRestore(states) == IF Len(states) > 1 THEN SubSeq(states, 1, Len(states) - 1) ELSE states
nvgTranslate(states, x, y) == [states EXCEPT ![Len(states)] = [@ EXCEPT !.ox = @ + states[Len(states)].sc * x, !.oy = @ + states[Len(states)].sc * y]]
nvgScale(states, s) == [states EXCEPT ![Len(states)] = [@ EXCEPT !.sc = @ * s]]

\* ------------------------------------------------------------------ Render
\* std::stack operations on rendering_stack; the top is the last element.
\* A push that puts the item under the items already stacked.
StackPushUnder(stack, item) == <<item>> \o stack
StackPush(stack, item) == Append(stack, item)
StackTop(stack) == stack[Len(stack)]
\* A pop that removes the bottom item of the stack.
StackPopBottom(stack) == Tail(stack)
StackPop(stack) == SubSeq(stack, 1, Len(stack) - 1)

\* The hooks WidgetView::WidgetViewWillRender(widget) invokes, in order:
\* the widget's own, then its children's, recursively.
RECURSIVE ViewWillRenderHooks(_)
RECURSIVE ViewWillRenderChildren(_)
ViewWillRenderChildren(kids) == IF kids = <<>> THEN <<>> ELSE ViewWillRenderHooks(Head(kids)) \o ViewWillRenderChildren(Tail(kids))
ViewWillRenderHooks(widget) == << <<IF widget = root_widget_ THEN "ViewWillRender" ELSE "WidgetViewWillRender", widget>> >> \o ViewWillRenderChildren(children(widget))

\* The hooks WidgetView::WidgetViewDidRender(widget) invokes, in order.
RECURSIVE ViewDidRenderHooks(_)
RECURSIVE ViewDidRenderChildren(_)
ViewDidRenderChildren(kids) == IF kids = <<>> THEN <<>> ELSE ViewDidRenderHooks(Head(kids)) \o ViewDidRenderChildren(Tail(kids))
ViewDidRenderHooks(widget) == << <<IF widget = root_widget_ THEN "ViewDidRender" ELSE "WidgetViewDidRender", widget>> >> \o ViewDidRenderChildren(children(widget))

\* The loop condition of PopAndFinalizeWidgetItems: it pops while the stack
\* is not empty and the top item's level is not below `level`.
\* A loop condition that keeps an item of the same level on the stack.
\* A loop condition that pops every item, whatever its level.
PopsTopAlways(stack, level) == stack # <<>>
PopsTopAbove(stack, level) == stack # <<>> /\ StackTop(stack).level > level
PopsTop(stack, level) == stack # <<>> /\ ~(StackTop(stack).level < level)

\* The level the running PopAndFinalizeWidgetItems call was given.
PopLevel == IF pc = "pop" THEN widget_list[item_index].level ELSE 0

\* Render(), widget_view.cc:155: WidgetViewWillRender(root_widget_).  The
\* virtual Widget::WidgetViewWillRender(context) of the widgets of
\* `returning_false` returns false when it is first called.
RenderViewWillRender(returning_false) ==
    /\ pc = "idle"
    /\ hook_log' = ViewWillRenderHooks(root_widget_)
    /\ not_ready' = returning_false
    /\ pc' = "populate"
    /\ UNCHANGED <<widget_list, rendering_stack, item_index, nvg_states, opened, finalized>>
    /\ UNCHANGED <<treeVars, hitVars, redrawVars, linkVars, eventVars, removeVars>>

\* Render(), widget_view.cc:156-157: the planner builds widget_list.
RenderPopulate ==
    /\ pc = "populate"
    /\ widget_list' = PopulateWidgetList(0, 1, <<>>, root_widget_, NullItem)
    /\ not_ready' = {}
    /\ pc' = "offscreen"
    /\ UNCHANGED <<rendering_stack, item_index, nvg_states, hook_log, opened, finalized>>
    /\ UNCHANGED <<treeVars, hitVars, redrawVars, linkVars, eventVars, removeVars>>

\* Render(), widget_view.cc:160-172: the offscreen pass over widget_list,
\* then nvgBeginFrame and an empty rendering_stack.
RenderBeginFrame ==
    /\ pc = "offscreen"
    /\ hook_log' = hook_log \o [i \in 1..Len(widget_list) |-> <<"RenderDefaultFramebuffer", widget_list[i].widget>>] \o << <<"nvgBeginFrame", NoWidget>> >>
    /\ nvg_states' = <<NvgIdentity>>
    /\ rendering_stack' = <<>>
    /\ item_index' = 1
    /\ pc' = IF widget_list = <<>> THEN "final_pop" ELSE "pop"
    /\ UNCHANGED <<widget_list, opened, finalized>>
    /\ UNCHANGED <<treeVars, hitVars, redrawVars, linkVars, eventVars, removeVars, hookVars>>

\* One iteration of the while loop of PopAndFinalizeWidgetItems,
\* widget_view.cc:66-75.
PopAndFinalizeWidgetItem ==
    /\ pc \in {"pop", "final_pop"}
    /\ PopsTop(rendering_stack, PopLevel)
    /\ rendering_stack' = StackPop(rendering_stack)
    /\ hook_log' = Append(hook_log, <<"WidgetDidRender", StackTop(rendering_stack).widget>>)
    /\ finalized' = Append(finalized, StackTop(rendering_stack).widget)
    /\ nvg_states' = nvgRestore(nvg_states)
    /\ UNCHANGED <<pc, widget_list, item_index, opened>>
    /\ UNCHANGED <<treeVars, hitVars, redrawVars, linkVars, eventVars, removeVars, hookVars>>

\* Render(), widget_view.cc:174-180: PopAndFinalizeWidgetItems has returned;
\* the item is pushed, the context saved and transformed, WidgetWillRender
\* invoked.
RenderOpenItem ==
    /\ pc = "pop"
    /\ ~PopsTop(rendering_stack, PopLevel)
    /\ LET item == widget_list[item_index]
       IN  /\ rendering_stack' = StackPush(rendering_stack, item)
           /\ nvg_states' = nvgScale(nvgTranslate(nvgSave(nvg_states), item.origin[1], item.origin[2]), item.scale)
           /\ hook_log' = Append(hook_log, <<"WidgetWillRender", item.widget>>)
           /\ opened' = Append(opened, item.widget)
    /\ pc' = "render"
    /\ UNCHANGED <<widget_list, item_index, finalized>>
    /\ UNCHANGED <<treeVars, hitVars, redrawVars, linkVars, eventVars, removeVars, hookVars>>

\* Render(), widget_view.cc:181-182: nvgSave and the start of RenderOnDemand.
RenderOnDemandBegin ==
    /\ pc = "render"
    /\ nvg_states' = nvgSave(nvg_states)
    /\ hook_log' = Append(hook_log, <<"RenderOnDemand", widget_list[item_index].widget>>)
    /\ pc' = "callback"
    /\ UNCHANGED <<widget_list, rendering_stack, item_index, opened, finalized>>
    /\ UNCHANGED <<treeVars, hitVars, redrawVars, linkVars, eventVars, removeVars, hookVars>>

\* Render(), widget_view.cc:182-184: RenderOnDemand returns, nvgRestore, and
\* the loop moves to the next item.
RenderOnDemandEnd ==
    /\ pc = "callback"
    /\ nvg_states' = nvgRestore(nvg_states)
    /\ item_index' = item_index + 1
    /\ pc' = IF item_index + 1 <= Len(widget_list) THEN "pop" ELSE "final_pop"
    /\ UNCHANGED <<widget_list, rendering_stack, hook_log, opened, finalized>>
    /\ UNCHANGED <<treeVars, hitVars, redrawVars, linkVars, eventVars, removeVars, hookVars>>

\* A Render() that ends the frame before PopAndFinalizeWidgetItems(0) has
\* emptied the rendering stack.
RenderEndFrameEarly ==
    /\ pc = "final_pop"
    /\ hook_log' = Append(hook_log, <<"nvgEndFrame", NoWidget>>)
    /\ pc' = "view_did_render"
    /\ UNCHANGED <<widget_list, rendering_stack, item_index, nvg_states, opened, finalized>>
    /\ UNCHANGED <<treeVars, hitVars, redrawVars, linkVars, eventVars, removeVars, hookVars>>

\* Render(), widget_view.cc:185-186: PopAndFinalizeWidgetItems(0) has
\* returned; nvgEndFrame.
RenderEndFrame ==
    /\ pc = "final_pop"
    /\ ~PopsTop(rendering_stack, PopLevel)
    /\ hook_log' = Append(hook_log, <<"nvgEndFrame", NoWidget>>)
    /\ pc' = "view_did_render"
    /\ UNCHANGED <<widget_list, rendering_stack, item_index, nvg_states, opened, finalized>>
    /\ UNCHANGED <<treeVars, hitVars, redrawVars, linkVars, eventVars, removeVars, hookVars>>

\* Render(), widget_view.cc:189: WidgetViewDidRender(root_widget_).
RenderViewDidRender ==
    /\ pc = "view_did_render"
    /\ hook_log' = hook_log \o ViewDidRenderHooks(root_widget_)
    /\ pc' = "done"
    /\ UNCHANGED <<widget_list, rendering_stack, item_index, nvg_states, opened, finalized>>
    /\ UNCHANGED <<treeVars, hitVars, redrawVars, linkVars, eventVars, removeVars, hookVars>>

\* Render() returns: its locals are gone.
RenderReturn ==
    /\ pc = "done"
    /\ pc' = "idle"
    /\ widget_list' = <<>>
    /\ rendering_stack' = <<>>
    /\ item_index' = 0
    /\ nvg_states' = <<NvgIdentity>>
    /\ hook_log' = <<>>
    /\ opened' = <<>>
    /\ finalized' = <<>>
    /\ UNCHANGED <<treeVars, hitVars, redrawVars, linkVars, eventVars, removeVars, hookVars>>

\* ---------------------------------------------------------------- hit test
\* Widget::ShouldHandleEvent(location) of `widget`, a virtual method: the
\* widgets of `claiming` return true.
WidgetShouldHandleEvent(claiming, widget) == widget \in claiming

\* The order in which the loop of widget_view.cc:210-211 visits the
\* children: from rbegin() to rend().
RECURSIVE Reversed(_)
Reversed(s) == IF s = <<>> THEN <<>> ELSE Append(Reversed(Tail(s)), Head(s))
\* A loop that visits the children from begin() to end().
ChildrenFromBegin(widget) == children(widget)
ChildrenFromRbegin(widget) == Reversed(children(widget))

RECURSIVE ShouldHandleEvent(_, _, _)
RECURSIVE ShouldHandleEventLoop(_, _, _)

\* A loop that asks the child itself before it descends into the child.
ShouldHandleEventLoopChildFirst(claiming, kids, responder) ==
    IF kids = <<>> THEN [ret |-> FALSE, responder |-> responder]
    ELSE LET child == Head(kids)
         IN  IF WidgetShouldHandleEvent(claiming, child) THEN [ret |-> TRUE, responder |-> child]
             ELSE LET below == ShouldHandleEvent(claiming, child, responder)
                  IN  IF below.ret THEN below
                      ELSE ShouldHandleEventLoop(claiming, Tail(kids), below.responder)

\* The loop of widget_view.cc:210-220 over the children still to visit;
\* `responder` is event_responder_ so far.
ShouldHandleEventLoop(claiming, kids, responder) ==
    IF kids = <<>> THEN [ret |-> FALSE, responder |-> responder]
    ELSE LET child == Head(kids)
             below == ShouldHandleEvent(claiming, child, responder)
         IN  IF below.ret THEN below
             ELSE IF WidgetShouldHandleEvent(claiming, child) THEN [ret |-> TRUE, responder |-> child]
             ELSE ShouldHandleEventLoop(claiming, Tail(kids), below.responder)

\* A hit test that clears event_responder_ when no widget claims the point.
ShouldHandleEventOrClear(claiming, widget, responder) ==
    LET found == IF IsHidden(widget) THEN [ret |-> FALSE, responder |-> responder]
                 ELSE ShouldHandleEventLoop(claiming, ChildrenFromRbegin(widget), responder)
    IN  IF found.ret THEN found ELSE [ret |-> FALSE, responder |-> NoWidget]

\* WidgetView::ShouldHandleEvent(location, widget): what it returns and
\* event_responder_ after it.
ShouldHandleEvent(claiming, widget, responder) ==
    IF IsHidden(widget) THEN [ret |-> FALSE, responder |-> responder]
    ELSE ShouldHandleEventLoop(claiming, ChildrenFromRbegin(widget), responder)

\* WidgetView::ShouldHandleEvent(location), widget_view.cc:200-202.
WidgetViewShouldHandleEvent(claiming) ==
    /\ pc = "idle"
    /\ LET r == ShouldHandleEvent(claiming, root_widget_, event_responder_)
       IN  /\ event_responder_' = r.responder
           /\ hit_returned' = r.ret
    /\ hit_claiming' = claiming
    /\ hit_previous' = event_responder_
    /\ pc' = "hit_returned"
    /\ UNCHANGED <<widget_list, rendering_stack, item_index, nvg_states, hook_log, opened, finalized>>
    /\ UNCHANGED <<treeVars, redrawVars, linkVars, eventVars, removeVars, hookVars>>

\* The caller has taken the result of ShouldHandleEvent(location).
ShouldHandleEventReturn ==
    /\ pc = "hit_returned"
    /\ pc' = "idle"
    /\ hit_claiming' = {}
    /\ hit_returned' = FALSE
    /\ hit_previous' = NoWidget
    /\ UNCHANGED <<event_responder_, widget_list, rendering_stack, item_index, nvg_states, hook_log, opened, finalized>>
    /\ UNCHANGED <<treeVars, redrawVars, linkVars, eventVars, removeVars, hookVars>>

\* ------------------------------------------------------------- HandleEvent
\* Widget::set_widget_view(widget_view) on a widget other than the root.
set_widget_view(w, widget_view) ==
    /\ pc = "idle"
    /\ widget_view_' = [widget_view_ EXCEPT ![w] = widget_view]
    /\ UNCHANGED <<parent_, measured_scale_>>
    /\ UNCHANGED <<treeVars, renderVars, hitVars, redrawVars, eventVars, removeVars, hookVars>>

\* A test that takes every responder to belong to the view.
ResponderIsStaleNever(responder) == FALSE
\* widget_view.cc:56: event_responder_->widget_view() != this.
ResponderIsStale(responder) == widget_view_[responder] # this_view

\* WidgetView::HandleEvent(event), widget_view.cc:50-62.
WidgetViewHandleEvent ==
    /\ pc = "idle"
    /\ pc' = "handled"
    /\ handled_previous' = event_responder_
    /\ IF event_responder_ = NoWidget
       THEN /\ handled_to' = <<>>
            /\ UNCHANGED event_responder_
       ELSE IF ResponderIsStale(event_responder_)
       THEN /\ event_responder_' = NoWidget
            /\ handled_to' = <<>>
       ELSE /\ handled_to' = Append(handled_to, event_responder_)
            /\ UNCHANGED event_responder_
    /\ UNCHANGED <<hit_claiming, hit_returned, hit_previous>>
    /\ UNCHANGED <<widget_list, rendering_stack, item_index, nvg_states, hook_log, opened, finalized>>
    /\ UNCHANGED <<treeVars, redrawVars, linkVars, removeVars, hookVars>>

\* WidgetView::HandleEvent(event) has returned.
HandleEventReturn ==
    /\ pc = "handled"
    /\ pc' = "idle"
    /\ handled_to' = <<>>
    /\ handled_previous' = NoWidget
    /\ UNCHANGED <<widget_list, rendering_stack, item_index, nvg_states, hook_log, opened, finalized>>
    /\ UNCHANGED <<treeVars, hitVars, redrawVars, linkVars, removeVars, hookVars>>

\* ------------------------------------------------------------------ Redraw
\* part_001:89: the pending flag of view v is set.
SetWaitingNot(v) == waiting_for_redraw_
SetWaiting(v) == [waiting_for_redraw_ EXCEPT ![v] = TRUE]

\* part_001:94: redraw_mutex after the unlock that precedes RenderNativeView.
HolderKeepsMutex(t) == t
HolderAfterClaim(t) == NoThread

\* Redraw() calls the threads 1..n have made so far.
RECURSIVE TotalCalls(_)
TotalCalls(n) == IF n = 0 THEN 0 ELSE calls_made[n] + TotalCalls(n - 1)

\* Where a Redraw() call of thread t returns to.
ReturnTo(t) == IF nested[t] THEN "render" ELSE "idle"

\* Thread t calls Redraw() on view v.
RedrawCall(t, v) ==
    /\ rpc[t] = "idle"
    /\ TotalCalls(NumThreads) < MaxCalls
    /\ calls_made' = [calls_made EXCEPT ![t] = @ + 1]
    /\ rview' = [rview EXCEPT ![t] = v]
    /\ rpc' = [rpc EXCEPT ![t] = "lock"]
    /\ unserved' = [unserved EXCEPT ![v] = TRUE]
    /\ UNCHANGED <<is_redrawing_, waiting_for_redraw_, redraw_mutex, nested, recursive, passes, started, arrived_first, arrived_later>>
    /\ UNCHANGED <<treeVars, renderVars, hitVars, linkVars, eventVars, removeVars, hookVars>>

\* Thread t calls Redraw() on its view from inside RenderNativeView.
RedrawCallNested(t) ==
    /\ rpc[t] = "render"
    /\ ~nested[t]
    /\ TotalCalls(NumThreads) < MaxCalls
    /\ calls_made' = [calls_made EXCEPT ![t] = @ + 1]
    /\ nested' = [nested EXCEPT ![t] = TRUE]
    /\ rpc' = [rpc EXCEPT ![t] = "lock"]
    /\ unserved' = [unserved EXCEPT ![rview[t]] = TRUE]
    /\ UNCHANGED <<is_redrawing_, waiting_for_redraw_, redraw_mutex, rview, recursive, passes, started, arrived_first, arrived_later>>
    /\ UNCHANGED <<treeVars, renderVars, hitVars, linkVars, eventVars, removeVars, hookVars>>

\* part_001:87: redraw_mutex.lock().
RedrawLock(t) ==
    /\ rpc[t] = "lock"
    /\ redraw_mutex = NoThread
    /\ redraw_mutex' = t
    /\ rpc' = [rpc EXCEPT ![t] = "check"]
    /\ UNCHANGED <<is_redrawing_, waiting_for_redraw_, rview, nested, recursive, calls_made, passes, started, arrived_first, arrived_later, unserved>>
    /\ UNCHANGED <<treeVars, renderVars, hitVars, linkVars, eventVars, removeVars, hookVars>>

\* part_001:88-92: a redraw is in progress; the call sets the pending flag,
\* unlocks and returns.
RedrawPending(t) ==
    /\ rpc[t] = "check"
    /\ is_redrawing_[rview[t]]
    /\ waiting_for_redraw_' = SetWaiting(rview[t])
    /\ redraw_mutex' = NoThread
    /\ rpc' = [rpc EXCEPT ![t] = ReturnTo(t)]
    /\ nested' = [nested EXCEPT ![t] = FALSE]
    /\ recursive' = [recursive EXCEPT ![t] = IF nested[t] THEN @ ELSE FALSE]
    /\ arrived_first' = [arrived_first EXCEPT ![rview[t]] = IF (nested[t] \/ ~recursive[t]) /\ passes[rview[t]] = 1 THEN @ + 1 ELSE @]
    /\ arrived_later' = [arrived_later EXCEPT ![rview[t]] = IF (nested[t] \/ ~recursive[t]) /\ passes[rview[t]] > 1 THEN @ + 1 ELSE @]
    /\ UNCHANGED <<is_redrawing_, rview, calls_made, passes, started, unserved>>
    /\ UNCHANGED <<treeVars, renderVars, hitVars, linkVars, eventVars, removeVars, hookVars>>

\* A Redraw() that enters RenderNativeView without setting is_redrawing_.
RedrawClaimWithoutFlag(t) ==
    /\ rpc[t] = "check"
    /\ ~is_redrawing_[rview[t]]
    /\ redraw_mutex' = HolderAfterClaim(t)
    /\ rpc' = [rpc EXCEPT ![t] = "render"]
    /\ passes' = [passes EXCEPT ![rview[t]] = @ + 1]
    /\ started' = [started EXCEPT ![rview[t]] = IF recursive[t] THEN @ ELSE @ + 1]
    /\ unserved' = [unserved EXCEPT ![rview[t]] = FALSE]
    /\ UNCHANGED <<is_redrawing_, waiting_for_redraw_, rview, nested, recursive, calls_made, arrived_first, arrived_later>>
    /\ UNCHANGED <<treeVars, renderVars, hitVars, linkVars, eventVars, removeVars, hookVars>>

\* part_001:93-96: no redraw is in progress; the call claims the view,
\* unlocks and enters RenderNativeView.
RedrawClaim(t) ==
    /\ rpc[t] = "check"
    /\ ~is_redrawing_[rview[t]]
    /\ is_redrawing_' = [is_redrawing_ EXCEPT ![rview[t]] = TRUE]
    /\ redraw_mutex' = HolderAfterClaim(t)
    /\ rpc' = [rpc EXCEPT ![t] = "render"]
    /\ passes' = [passes EXCEPT ![rview[t]] = @ + 1]
    /\ started' = [started EXCEPT ![rview[t]] = IF recursive[t] THEN @ ELSE @ + 1]
    /\ unserved' = [unserved EXCEPT ![rview[t]] = FALSE]
    /\ UNCHANGED <<waiting_for_redraw_, rview, nested, recursive, calls_made, arrived_first, arrived_later>>
    /\ UNCHANGED <<treeVars, renderVars, hitVars, linkVars, eventVars, removeVars, hookVars>>

\* part_001:96: RenderNativeView returns.
RenderNativeViewReturn(t) ==
    /\ rpc[t] = "render"
    /\ ~nested[t]
    /\ rpc' = [rpc EXCEPT ![t] = "relock"]
    /\ UNCHANGED <<is_redrawing_, waiting_for_redraw_, redraw_mutex, rview, nested, recursive, calls_made, passes, started, arrived_first, arrived_later, unserved>>
    /\ UNCHANGED <<treeVars, renderVars, hitVars, linkVars, eventVars, removeVars, hookVars>>

\* part_001:99: redraw_mutex.lock().
RedrawRelock(t) ==
    /\ rpc[t] = "relock"
    /\ redraw_mutex = NoThread
    /\ redraw_mutex' = t
    /\ rpc' = [rpc EXCEPT ![t] = "finish"]
    /\ UNCHANGED <<is_redrawing_, waiting_for_redraw_, rview, nested, recursive, calls_made, passes, started, arrived_first, arrived_later, unserved>>
    /\ UNCHANGED <<treeVars, renderVars, hitVars, linkVars, eventVars, removeVars, hookVars>>

\* A Redraw() that resets the flags and returns without looking at the
\* pending flag.
RedrawFinishWithoutRetry(t) ==
    /\ rpc[t] = "finish"
    /\ rpc' = [rpc EXCEPT ![t] = "idle"]
    /\ recursive' = [recursive EXCEPT ![t] = FALSE]
    /\ is_redrawing_' = [is_redrawing_ EXCEPT ![rview[t]] = FALSE]
    /\ waiting_for_redraw_' = [waiting_for_redraw_ EXCEPT ![rview[t]] = FALSE]
    /\ redraw_mutex' = NoThread
    /\ UNCHANGED <<rview, nested, calls_made, passes, started, arrived_first, arrived_later, unserved>>
    /\ UNCHANGED <<treeVars, renderVars, hitVars, linkVars, eventVars, removeVars, hookVars>>

\* part_001:100-105: the flags are reset and the mutex unlocked; with a
\* redraw pending the thread calls Redraw() again, otherwise it returns.
RedrawFinish(t) ==
    /\ rpc[t] = "finish"
    /\ LET kShouldRedraw == waiting_for_redraw_[rview[t]]
       IN  /\ rpc' = [rpc EXCEPT ![t] = IF kShouldRedraw THEN "lock" ELSE "idle"]
           /\ recursive' = [recursive EXCEPT ![t] = kShouldRedraw]
    /\ is_redrawing_' = [is_redrawing_ EXCEPT ![rview[t]] = FALSE]
    /\ waiting_for_redraw_' = [waiting_for_redraw_ EXCEPT ![rview[t]] = FALSE]
    /\ redraw_mutex' = NoThread
    /\ UNCHANGED <<rview, nested, calls_made, passes, started, arrived_first, arrived_later, unserved>>
    /\ UNCHANGED <<treeVars, renderVars, hitVars, linkVars, eventVars, removeVars, hookVars>>

\* ---------------------------------------------------------- specifications
vars == <<treeVars, renderVars, hitVars, redrawVars, linkVars, eventVars, removeVars, hookVars>>

InitTree ==
    /\ children_ = [w \in Widgets |-> <<>>]
    /\ hidden_ = [w \in Widgets |-> FALSE]
    /\ x_ = [w \in Widgets |-> 0]
    /\ y_ = [w \in Widgets |-> 0]
    /\ width_ = [w \in Widgets |-> 0]
    /\ height_ = [w \in Widgets |-> 0]
    /\ scale_ = [w \in Widgets |-> 1]
    /\ view_width = 0
    /\ view_height = 0

InitRender ==
    /\ pc = "idle"
    /\ widget_list = <<>>
    /\ rendering_stack = <<>>
    /\ item_index = 0
    /\ nvg_states = <<NvgIdentity>>
    /\ hook_log = <<>>
    /\ opened = <<>>
    /\ finalized = <<>>

InitHit ==
    /\ event_responder_ = NoWidget
    /\ hit_claiming = {}
    /\ hit_returned = FALSE
    /\ hit_previous = NoWidget

InitRedraw ==
    /\ is_redrawing_ = [v \in Views |-> FALSE]
    /\ waiting_for_redraw_ = [v \in Views |-> FALSE]
    /\ redraw_mutex = NoThread
    /\ rpc = [t \in Threads |-> "idle"]
    /\ rview = [t \in Threads |-> 1]
    /\ nested = [t \in Threads |-> FALSE]
    /\ recursive = [t \in Threads |-> FALSE]
    /\ calls_made = [t \in Threads |-> 0]
    /\ passes = [v \in Views |-> 0]
    /\ started = [v \in Views |-> 0]
    /\ arrived_first = [v \in Views |-> 0]
    /\ arrived_later = [v \in Views |-> 0]
    /\ unserved = [v \in Views |-> FALSE]

\* Widget::Widget and WidgetView::WidgetView: only the root widget belongs
\* to the view, no widget has a parent and no scale is measured.
InitLink ==
    /\ widget_view_ = [w \in Widgets |-> IF w = root_widget_ THEN this_view ELSE NoView]
    /\ parent_ = [w \in Widgets |-> NoWidget]
    /\ measured_scale_ = [w \in Widgets |-> Unmeasured]

InitEvent ==
    /\ handled_to = <<>>
    /\ handled_previous = NoWidget

InitHook ==
    /\ not_ready = {}

InitRemove ==
    /\ removed_widget = NoWidget
    /\ removed_returned = FALSE
    /\ removed_children = <<>>
    /\ removed_parent = NoWidget

Init == InitTree /\ InitRender /\ InitHit /\ InitRedraw /\ InitLink /\ InitEvent /\ InitRemove /\ InitHook

\* The widgets not yet in any child list, lowest first: widgets are created
\* and added one after the other.
Detached == {w \in ChildWidgets : ParentOf(w) = NoWidget}
NextDetached == CHOOSE w \in Detached : \A v \in Detached : w <= v

\* Scales given to Widget::set_scale.
Scales == {1, 2}

\* Bounds <<x, y, width, height>> given to Widget::SetBounds in the planner's
\* specification: inside the view, beginning left of and above the parent,
\* offset, overflowing right and bottom, beyond the right edge, beyond the
\* bottom edge, wholly left of the parent, and of zero height.
PlanRects == {<<0, 0, 2, 2>>, <<0 - 1, 0 - 1, 3, 3>>, <<1, 1, 2, 1>>, <<3, 2, 2, 2>>, <<4, 0, 1, 1>>, <<0, 3, 1, 1>>, <<0 - 3, 0, 2, 2>>, <<0, 0, 2, 0>>}

\* Bounds given to Widget::SetBounds in the executor's specification.
RenderRects == {<<0, 0, 2, 2>>, <<0, 0, 0, 0>>}

\* The planner on trees of NumWidgets widgets with varied geometry.
NextPlan ==
    \/ \E p \in Attached : Detached # {} /\ AddChild(p, NextDetached)
    \/ \E w \in Attached \ {root_widget_}, r \in PlanRects : SetBounds(w, r[1], r[2], r[3], r[4])
    \/ \E w \in Attached \ {root_widget_}, s \in Scales : set_scale(w, s)
    \/ WidgetViewSetBounds(ViewWidth, ViewHeight)
    \/ RenderViewWillRender({})
    \/ RenderPopulate

SpecPlan == Init /\ [][NextPlan]_vars

\* A whole Render pass on trees of NumWidgets widgets.
NextRender ==
    \/ \E p \in Attached : Detached # {} /\ AddChild(p, NextDetached)
    \/ \E w \in Attached \ {root_widget_}, h \in BOOLEAN : SetHidden(w, h)
    \/ \E w \in Attached \ {root_widget_}, r \in RenderRects : SetBounds(w, r[1], r[2], r[3], r[4])
    \/ WidgetViewSetBounds(ViewWidth, ViewHeight)
    \/ \E returning_false \in SUBSET (Attached \ {root_widget_}) : RenderViewWillRender(returning_false)
    \/ RenderPopulate
    \/ RenderBeginFrame
    \/ PopAndFinalizeWidgetItem
    \/ RenderOpenItem
    \/ RenderOnDemandBegin
    \/ RenderOnDemandEnd
    \/ RenderEndFrame
    \/ RenderViewDidRender
    \/ RenderReturn

SpecRender == Init /\ [][NextRender]_vars

\* Bounds given to Widget::SetBounds in the specification of the executor's
\* placement: offset from the parent's origin on both axes or on one.
PlaceRects == {<<1, 1, 2, 2>>, <<1, 0, 1, 1>>}

\* A whole Render pass on trees of NumWidgets widgets that are offset from
\* their parents and scaled.
NextPlace ==
    \/ \E p \in Attached : Detached # {} /\ AddChild(p, NextDetached)
    \/ \E w \in Attached \ {root_widget_}, r \in PlaceRects : SetBounds(w, r[1], r[2], r[3], r[4])
    \/ \E w \in Attached \ {root_widget_}, s \in Scales : set_scale(w, s)
    \/ WidgetViewSetBounds(ViewWidth, ViewHeight)
    \/ RenderViewWillRender({})
    \/ RenderPopulate
    \/ RenderBeginFrame
    \/ PopAndFinalizeWidgetItem
    \/ RenderOpenItem
    \/ RenderOnDemandBegin
    \/ RenderOnDemandEnd
    \/ RenderEndFrame
    \/ RenderViewDidRender
    \/ RenderReturn

SpecPlace == Init /\ [][NextPlace]_vars

\* Hit tests on trees of NumWidgets widgets.
NextHit ==
    \/ \E p \in Attached : Detached # {} /\ AddChild(p, NextDetached)
    \/ \E w \in Attached \ {root_widget_}, h \in BOOLEAN : SetHidden(w, h)
    \/ \E claiming \in SUBSET ChildWidgets : WidgetViewShouldHandleEvent(claiming)
    \/ ShouldHandleEventReturn

SpecHit == Init /\ [][NextHit]_vars

\* Threads calling Redraw() on the views.
NextRedraw ==
    \E t \in Threads :
        \/ \E v \in Views : RedrawCall(t, v)
        \/ RedrawCallNested(t)
        \/ RedrawLock(t)
        \/ RedrawPending(t)
        \/ RedrawClaim(t)
        \/ RenderNativeViewReturn(t)
        \/ RedrawRelock(t)
        \/ RedrawFinish(t)

SpecRedraw == Init /\ [][NextRedraw]_vars

\* The steps of thread t inside a Redraw() call it has made.  A thread that
\* is inside Redraw() goes on running, and RenderNativeView returns.
RedrawProgress(t) ==
    \/ RedrawLock(t)
    \/ RedrawPending(t)
    \/ RedrawClaim(t)
    \/ RenderNativeViewReturn(t)
    \/ RedrawRelock(t)
    \/ RedrawFinish(t)

\* Threads calling Redraw() on the views, each thread scheduled again and
\* again while it is inside a call.
SpecRedrawFair == Init /\ [][NextRedraw]_vars /\ \A t \in Threads : WF_vars(RedrawProgress(t))

\* Hit tests and events on trees of NumWidgets widgets that join and leave
\* the widget view.
NextEvent ==
    \/ \E p \in Attached : Detached # {} /\ AddChild(p, NextDetached)
    \/ \E w \in ChildWidgets, v \in {NoView} \cup Views : set_widget_view(w, v)
    \/ \E claiming \in SUBSET ChildWidgets : WidgetViewShouldHandleEvent(claiming)
    \/ ShouldHandleEventReturn
    \/ WidgetViewHandleEvent
    \/ HandleEventReturn

SpecEvent == Init /\ [][NextEvent]_vars

\* The tree operations, called with any widgets: a widget is added to any
\* widget created before it, whether or not a child list holds it already.
NextTree ==
    \/ \E p \in Widgets, c \in ChildWidgets : p < c /\ Len(children_[p]) < MaxChildren /\ AddChild(p, c)
    \/ \E w \in ChildWidgets : RemoveFromParent(w)
    \/ RemoveFromParentReturn
    \/ \E w \in ChildWidgets, sc \in Scales : set_scale(w, sc)
    \/ \E w \in Widgets : GetMeasuredScale(w)

SpecTree == Init /\ [][NextTree]_vars

\* ================================================================== claims
Count(seq, x) == Cardinality({i \in DOMAIN seq : seq[i] = x})
ItemWidgets(list) == {list[i].widget : i \in DOMAIN list}
ItemOf(list, w) == list[CHOOSE i \in DOMAIN list : list[i].widget = w]
\* Position of a child in its parent's child list.
ChildIndex(w) == CHOOSE i \in DOMAIN children_[ParentOf(w)] : children_[ParentOf(w)][i] = w
\* Positions in hook_log of the invocations of `hook` on w.
HookAt(hook, w) == {p \in DOMAIN hook_log : hook_log[p] = <<hook, w>>}
\* The item opened by the WidgetWillRender at position q of hook_log is
\* still open before position p.
StillOpen(q, p) == q < p /\ hook_log[q][1] = "WidgetWillRender" /\ \A r \in DOMAIN hook_log : (q < r /\ r < p) => hook_log[r] # <<"WidgetDidRender", hook_log[q][2]>>

\* C1: in every Render pass a widget's WidgetDidRender fires only after the
\* WidgetDidRender of every rendered descendant has fired, and every
\* WidgetDidRender is that of the most recently opened item still open (so
\* a chain A -> B -> C is finalized C, B, A).
C1_DidRenderDeepestFirst ==
    /\ \A w \in ItemWidgets(widget_list), d \in ItemWidgets(widget_list) :
          (w \in Ancestors(d)) => \A p \in HookAt("WidgetDidRender", w) : \E r \in HookAt("WidgetDidRender", d) : r < p
    /\ \A p \in DOMAIN hook_log : hook_log[p][1] = "WidgetDidRender" =>
          \E q \in DOMAIN hook_log : /\ StillOpen(q, p)
                                     /\ hook_log[q][2] = hook_log[p][2]
                                     /\ \A q2 \in DOMAIN hook_log : StillOpen(q2, p) => q2 <= q

\* A pass over a chain root -> A -> B -> C, all rendered, has ended with
\* did-render order C, B, A, root.
C1_Witness ==
    /\ pc = "done"
    /\ \E a, b, c \in ChildWidgets : /\ children_[root_widget_] = <<a>> /\ children_[a] = <<b>> /\ children_[b] = <<c>>
                                    /\ finalized = <<c, b, a, root_widget_>>
                                    /\ HookAt("WidgetDidRender", c) # {}

\* C2: in every Render pass each item of the planner's list is pushed at
\* most once and finalized at most once, and only items of the list are;
\* when the frame has ended each was pushed exactly once and finalized
\* exactly once (WidgetDidRender invoked, item released, context restored),
\* the rendering stack is empty, and a widget without an item got neither
\* WidgetWillRender nor WidgetDidRender.
C2_EachItemOpenedAndFinalizedOnce ==
    /\ \A w \in Widgets : /\ Count(opened, w) <= 1
                          /\ Count(finalized, w) <= Count(opened, w)
                          /\ Cardinality(HookAt("WidgetWillRender", w)) = Count(opened, w)
                          /\ Cardinality(HookAt("WidgetDidRender", w)) = Count(finalized, w)
                          /\ w \notin ItemWidgets(widget_list) => (Count(opened, w) = 0 /\ Count(finalized, w) = 0)
    /\ Len(nvg_states) >= 1 + Len(rendering_stack)
    /\ pc \in {"view_did_render", "done"} =>
          /\ \A w \in ItemWidgets(widget_list) : Count(opened, w) = 1 /\ Count(finalized, w) = 1
          /\ rendering_stack = <<>>
          /\ Len(nvg_states) = 1

\* A pass has ended that rendered two items or more and left an attached
\* widget without an item.
C2_Witness ==
    /\ pc = "done"
    /\ Len(widget_list) >= 2
    /\ Len(finalized) = Len(widget_list)
    /\ \E w \in Attached : w \notin ItemWidgets(widget_list)

\* C3: the planner's list is in pre-order: an item precedes the items of
\* its widget's descendants, the items of a widget's subtree are
\* contiguous, siblings are in child-list order, and an item's level is
\* the depth of its widget below the root widget.
C3_ListIsPreorder ==
    \A i \in DOMAIN widget_list :
        /\ widget_list[i].level = Depth(widget_list[i].widget)
        /\ \A j \in DOMAIN widget_list :
              /\ (widget_list[i].widget \in Ancestors(widget_list[j].widget)) => i < j
              /\ (i # j) => widget_list[i].widget # widget_list[j].widget
              /\ (/\ i < j
                  /\ widget_list[i].widget \in Ancestors(widget_list[j].widget)) =>
                     \A k \in DOMAIN widget_list : (i < k /\ k < j) => widget_list[i].widget \in Ancestors(widget_list[k].widget)
              /\ (/\ widget_list[i].widget # root_widget_
                  /\ widget_list[j].widget # root_widget_
                  /\ ParentOf(widget_list[i].widget) = ParentOf(widget_list[j].widget)
                  /\ ChildIndex(widget_list[i].widget) < ChildIndex(widget_list[j].widget)) => i < j

\* The planner has listed the root, a first child, that child's child and a
\* second child of the root, the grandchild having been added last.
C3_Witness ==
    /\ pc = "offscreen"
    /\ Len(widget_list) = 4
    /\ widget_list[3].level = 2
    /\ widget_list[4].level = 1
    /\ widget_list[3].widget > widget_list[4].widget

\* C4: the planner's list holds no item of a hidden widget and no item of
\* a descendant of a hidden widget.
C4_NoItemUnderHidden ==
    \A i \in DOMAIN widget_list :
        /\ ~hidden_[widget_list[i].widget]
        /\ \A a \in Ancestors(widget_list[i].widget) : ~hidden_[a]

\* The planner has run on a tree with a hidden widget of positive size that
\* has a child which is not hidden and has a size, and has listed others.
C4_Witness ==
    /\ pc = "offscreen"
    /\ Len(widget_list) >= 2
    /\ \E w \in Attached, d \in Attached : /\ hidden_[w] /\ ParentOf(d) = w /\ ~hidden_[d]
                                          /\ width_[w] > 0 /\ height_[w] > 0
                                          /\ width_[d] > 0 /\ height_[d] > 0

\* C5: every item of the planner's list has a positive width, height,
\* scissor width and scissor height, carries its widget's size, and every
\* ancestor of its widget has an item too: a widget without a positive
\* size or scissor has no item and neither has any of its descendants.
C5_ItemsHavePositiveExtent ==
    \A i \in DOMAIN widget_list :
        /\ widget_list[i].width > 0 /\ widget_list[i].height > 0
        /\ widget_list[i].scissor_width > 0 /\ widget_list[i].scissor_height > 0
        /\ widget_list[i].width = width_[widget_list[i].widget]
        /\ widget_list[i].height = height_[widget_list[i].widget]
        /\ \A a \in Ancestors(widget_list[i].widget) : a \in ItemWidgets(widget_list)

\* The planner has left out a widget of positive size that begins right of
\* its listed parent's scissor but inside the view, and a child of it.
C5_Witness ==
    /\ pc = "offscreen"
    /\ \E w \in Attached, d \in Attached :
          /\ ParentOf(d) = w /\ ParentOf(ParentOf(w)) = root_widget_
          /\ ParentOf(w) \in ItemWidgets(widget_list)
          /\ w \notin ItemWidgets(widget_list) /\ d \notin ItemWidgets(widget_list)
          /\ width_[w] > 0 /\ height_[w] > 0 /\ width_[d] > 0 /\ height_[d] > 0
          /\ x_[ParentOf(w)] = 0 /\ y_[ParentOf(w)] = 0
          /\ x_[w] >= width_[ParentOf(w)] /\ x_[w] < view_width
          /\ y_[w] >= 0 /\ y_[w] < view_height
          /\ x_[d] = 0 /\ y_[d] = 0

\* The product of the scales of the ancestors of w.
RECURSIVE InheritedScale(_)
InheritedScale(w) == IF ParentOf(w) = NoWidget THEN 1 ELSE InheritedScale(ParentOf(w)) * scale_[ParentOf(w)]

\* C6: for every item with a parent item the scissor rectangle is the
\* geometric intersection of the parent item's scissor rectangle with the
\* widget's scaled bounding rectangle (translated origin; width and height
\* times inherited scale times own scale).
C6_ScissorIsIntersection ==
    \A i \in DOMAIN widget_list : widget_list[i].parent_item # NoWidget =>
        LET item == widget_list[i]
            parent == ItemOf(widget_list, item.parent_item)
            kScaled == InheritedScale(item.widget) * scale_[item.widget]
            left == Max(parent.scissor_origin[1], item.translated_origin[1])
            right == Min(parent.scissor_origin[1] + parent.scissor_width, item.translated_origin[1] + item.width * kScaled)
            top == Max(parent.scissor_origin[2], item.translated_origin[2])
            bottom == Min(parent.scissor_origin[2] + parent.scissor_height, item.translated_origin[2] + item.height * kScaled)
        IN  /\ item.scissor_origin = <<left, top>>
            /\ item.scissor_width = right - left
            /\ item.scissor_height = bottom - top

\* No thread is inside a Redraw() call on view v.
QuietOn(v) == \A t \in Threads : rpc[t] # "idle" => rview[t] # v

\* C7: when one caller's Redraw() began the first pass of a view and every
\* other call (k >= 1 of them, from other threads or from inside the
\* render) found that pass in progress, exactly two RenderNativeView passes
\* run on the view in total: never one, never more.
C7_CoalescedIntoOneExtraPass ==
    \A v \in Views : (started[v] = 1 /\ arrived_later[v] = 0) =>
        /\ passes[v] <= 2
        /\ (QuietOn(v) /\ arrived_first[v] >= 1) => passes[v] = 2

\* Two calls found the first pass of a view in progress, every call has
\* returned and two passes ran.
C7_Witness ==
    \E v \in Views : /\ QuietOn(v) /\ started[v] = 1 /\ arrived_first[v] = 2 /\ arrived_later[v] = 0
                     /\ passes[v] = 2 /\ ~is_redrawing_[v] /\ ~waiting_for_redraw_[v]

\* C8: redraw_mutex is held only around the reads and writes of the two
\* flags, never by a thread that is running RenderNativeView; and a
\* Redraw() that finds a redraw in progress sets the pending flag, unlocks
\* and returns in that step, without starting a pass.
C8_MutexNotHeldAcrossRender ==
    /\ [](\A t \in Threads : /\ redraw_mutex = t => rpc[t] \in {"check", "finish"}
                             /\ rpc[t] \in {"render", "relock", "lock", "idle"} => redraw_mutex # t)
    /\ [][\A t \in Threads : (rpc[t] = "check" /\ is_redrawing_[rview[t]] /\ rpc'[t] # "check") =>
             /\ waiting_for_redraw_'[rview[t]]
             /\ redraw_mutex' = NoThread
             /\ passes' = passes
             /\ is_redrawing_' = is_redrawing_
             /\ rpc'[t] = ReturnTo(t)]_vars

\* A thread is running RenderNativeView on a view while another thread's
\* Redraw() on that view has returned having set the pending flag.
C8_Witness ==
    \E t1 \in Threads, t2 \in Threads :
        /\ t1 # t2 /\ rpc[t1] = "render" /\ rpc[t2] = "idle" /\ calls_made[t2] = 1
        /\ rview[t2] = rview[t1] /\ waiting_for_redraw_[rview[t1]] /\ arrived_first[rview[t1]] = 1
        /\ redraw_mutex = NoThread

\* The last of the children of p, in child-list order, that claims the
\* point of the running hit test.
LastClaimingChild(p) == children_[p][CHOOSE i \in DOMAIN children_[p] : children_[p][i] \in hit_claiming /\ \A j \in DOMAIN children_[p] : children_[p][j] \in hit_claiming => j <= i]

\* C9: when the widgets that claim the point are children of one widget
\* that the hit test reaches, none of that widget's children is hidden and
\* no other attached widget claims the point, ShouldHandleEvent returns
\* true and the responder is the claiming child latest in the child list
\* (Z for siblings X, Y, Z that all claim).
C9_LastClaimingSiblingWins ==
    pc = "hit_returned" =>
        \A p \in Attached :
            (/\ hit_claiming \cap SeqToSet(children_[p]) # {}
             /\ (hit_claiming \cap Attached) \subseteq SeqToSet(children_[p])
             /\ \A a \in {p} \cup Ancestors(p) : ~hidden_[a]
             /\ \A c \in SeqToSet(children_[p]) : ~hidden_[c]) =>
                /\ hit_returned
                /\ event_responder_ = LastClaimingChild(p)

\* Siblings X, Y, Z under the root, none hidden, all claim the point, and
\* the hit test has made Z the responder.
C9_Witness ==
    /\ pc = "hit_returned"
    /\ \E x, y, z \in ChildWidgets : /\ children_[root_widget_] = <<x, y, z>>
                                    /\ hit_claiming = {x, y, z}
                                    /\ ~hidden_[x] /\ ~hidden_[y] /\ ~hidden_[z]
                                    /\ hit_returned /\ event_responder_ = z /\ hit_previous # z

\* C10: the responder ShouldHandleEvent selects is not hidden and has no
\* hidden ancestor.
C10_ResponderNotHidden ==
    (pc = "hit_returned" /\ hit_returned) =>
        /\ event_responder_ \in Widgets
        /\ ~hidden_[event_responder_]
        /\ \A a \in Ancestors(event_responder_) : ~hidden_[a]

Occurrences(w) == Cardinality({<<p, i>> \in Widgets \X (1..(NumWidgets + MaxChildren + 1)) : i \in DOMAIN children_[p] /\ children_[p][i] = w})

\* The widget and its ancestors are each held once, by one child list.
HeldOnceUpToRoot(w) == \A a \in {w} \cup Ancestors(w) : a = root_widget_ \/ Occurrences(a) = 1

\* The planner has used the product of the scales of a widget's ancestors
\* as the widget's inherited scale: the item keeps the widget's own scale,
\* and its translated origin is the parent item's plus the widget's position
\* times that product, the parent's being the scale passed to its children.
PlannerScaleIsProduct ==
    \A i \in DOMAIN widget_list :
        LET item == widget_list[i]
            w == item.widget
        IN  /\ item.scale = scale_[w]
            /\ item.parent_item # NoWidget =>
                  /\ InheritedScale(w) = InheritedScale(item.parent_item) * scale_[item.parent_item]
                  /\ item.translated_origin[1] = ItemOf(widget_list, item.parent_item).translated_origin[1] + x_[w] * InheritedScale(w)
                  /\ item.translated_origin[2] = ItemOf(widget_list, item.parent_item).translated_origin[2] + y_[w] * InheritedScale(w)

\* C12: the planner's inherited scale of a widget is the product of the
\* scales of its ancestors and the scale passed to its children is that
\* product times its own scale; GetMeasuredScale() on a widget below the
\* root returns this product, also after the widget was added to another
\* parent.
C12_ScaleIsProductOfAncestors ==
    /\ PlannerScaleIsProduct
    /\ \A w \in Attached : (HeldOnceUpToRoot(w) /\ measured_scale_[w] # Unmeasured) =>
           measured_scale_[w] = InheritedScale(w) * scale_[w]

\* C16: every widget is held by at most one child list and at most once,
\* and parent() of a widget is P exactly when P's child list holds the
\* widget: AddChild(child) makes the receiver the child's parent.
C16_ParentMatchesChildList ==
    \A w \in Widgets :
        /\ Occurrences(w) <= 1
        /\ \A p \in Widgets : parent_[w] = p <=> w \in SeqToSet(children_[p])

\* The child lists that held the widget when RemoveFromParent() began.
RemovedFrom == {p \in Widgets : removed_widget \in SeqToSet(removed_children[p])}

\* C17: RemoveFromParent() on a widget without a parent returns false and
\* changes nothing; on a child of a widget it returns true, the parent's
\* child list is the former one without the widget, the other children in
\* their order, and the widget's parent is cleared.
C17_RemoveFromParentUnlinks ==
    pc = "removed" =>
        /\ (removed_parent = NoWidget /\ RemovedFrom = {}) =>
               /\ ~removed_returned
               /\ children_ = removed_children
               /\ parent_[removed_widget] = NoWidget
        /\ \A p \in RemovedFrom :
               /\ removed_returned
               /\ removed_widget \notin SeqToSet(children_[p])
               /\ children_[p] = SelectSeq(removed_children[p], LAMBDA c : c # removed_widget)
               /\ parent_[removed_widget] = NoWidget

\* The widget is a child of the root widget, has scale 1, is not hidden and
\* its rectangle of positive size lies wholly inside the root's bounds.
InsideRoot(w) ==
    /\ w \in SeqToSet(children_[root_widget_])
    /\ ~hidden_[w] /\ ~hidden_[root_widget_]
    /\ scale_[w] = 1 /\ scale_[root_widget_] = 1
    /\ width_[w] > 0 /\ height_[w] > 0
    /\ x_[w] >= 0 /\ y_[w] >= 0
    /\ x_[w] + width_[w] <= width_[root_widget_]
    /\ y_[w] + height_[w] <= height_[root_widget_]

C14_ViewWillRenderSkipsHidden ==
    pc = "populate" =>
        \A w \in Attached \ {root_widget_} :
            /\ ~hidden_[w] => Cardinality(HookAt("WidgetViewWillRender", w)) = 1
            /\ hidden_[w] => HookAt("WidgetViewWillRender", w) = {}
            /\ \A p \in HookAt("WidgetViewWillRender", w) :
                  \E q \in DOMAIN hook_log : q < p /\ hook_log[q][2] = ParentOf(w)

\* C18: a widget whose WidgetViewWillRender returned false has the hook
\* invoked again before the pass continues, after the hooks of its children
\* were invoked in between.
C18_NotReadyWidgetIsAskedAgain ==
    pc = "populate" =>
        \A w \in not_ready :
            \E p \in HookAt("WidgetViewWillRender", w), q \in HookAt("WidgetViewWillRender", w) :
                /\ p < q
                /\ \A c \in SeqToSet(children_[w]) :
                      \E r \in HookAt("WidgetViewWillRender", c) : p < r /\ r < q

\* C15: a thread whose Redraw() on one view is about to lock the mutex
\* never finds it held by a Redraw() that runs on another view.
C15_ViewsDoNotShareTheLock ==
    \A t \in Threads, u \in Threads :
        (rpc[t] \in {"lock", "relock"} /\ redraw_mutex = u /\ u # t) => rview[u] = rview[t]

\* The item of widget v, opened before position p of the hook log, was
\* finalized before p.
ClosedBefore(v, p) == \E r \in HookAt("WidgetDidRender", v) : r < p

\* The widgets whose items were opened before position p of the hook log.
OpenedBefore(p) == {v \in Widgets : \E q \in HookAt("WidgetWillRender", v) : q < p}

\* C19 as stated: when an item of depth d is opened, every item opened
\* before it of depth >= d has been finalized and no item opened before it
\* of depth < d has been.
C19_ShallowerItemsNeverClosed ==
    \A p \in DOMAIN hook_log : hook_log[p][1] = "WidgetWillRender" =>
        \A v \in OpenedBefore(p) :
            /\ Depth(v) >= Depth(hook_log[p][2]) => ClosedBefore(v, p)
            /\ Depth(v) < Depth(hook_log[p][2]) => ~ClosedBefore(v, p)

\* C19, amended: when an item of depth d is opened, every item opened
\* before it of depth >= d has been finalized, and the items of the
\* ancestors of its widget, the only items of depth < d still open, have
\* not been; an item of depth < d of another branch was finalized before.
C19_DeeperClosedAncestorsOpen ==
    \A p \in DOMAIN hook_log : hook_log[p][1] = "WidgetWillRender" =>
        \A v \in OpenedBefore(p) :
            /\ Depth(v) >= Depth(hook_log[p][2]) => ClosedBefore(v, p)
            /\ v \in Ancestors(hook_log[p][2]) => ~ClosedBefore(v, p)
            /\ (Depth(v) < Depth(hook_log[p][2]) /\ v \notin Ancestors(hook_log[p][2])) => ClosedBefore(v, p)

\* An item of depth 2 has just been opened while its parent's and the
\* root's items are open, after an item of depth 1 of another branch was
\* opened and finalized.
C19_Witness ==
    /\ pc = "render"
    /\ LET w == hook_log[Len(hook_log)][2]
       IN  /\ hook_log[Len(hook_log)][1] = "WidgetWillRender"
           /\ Depth(w) = 2
           /\ \E v \in OpenedBefore(Len(hook_log)) :
                 Depth(v) = 1 /\ v \notin Ancestors(w) /\ ClosedBefore(v, Len(hook_log))
           /\ \A a \in Ancestors(w) : a \in OpenedBefore(Len(hook_log)) /\ ~ClosedBefore(a, Len(hook_log))

\* The phase of Render an entry of the hook log belongs to.
PhaseOf(entry) ==
    CASE entry[1] \in {"ViewWillRender", "WidgetViewWillRender"} -> "will_render"
      [] entry[1] = "RenderDefaultFramebuffer" -> "offscreen"
      [] entry[1] = "nvgBeginFrame" -> "begin_frame"
      [] entry[1] \in {"WidgetWillRender", "RenderOnDemand", "WidgetDidRender"} -> "onscreen"
      [] entry[1] = "nvgEndFrame" -> "end_frame"
      [] entry[1] \in {"ViewDidRender", "WidgetViewDidRender"} -> "did_render"

\* The phases that may follow one another in the hook log.
PhaseFollows(a, b) ==
    \/ a = b /\ a \in {"will_render", "offscreen", "onscreen", "did_render"}
    \/ a = "will_render" /\ b \in {"offscreen", "begin_frame"}
    \/ a = "offscreen" /\ b = "begin_frame"
    \/ a = "begin_frame" /\ b \in {"onscreen", "end_frame"}
    \/ a = "onscreen" /\ b = "end_frame"
    \/ a = "end_frame" /\ b = "did_render"

\* The positions of the hook log that belong to the phase.
InPhase(phase) == {p \in DOMAIN hook_log : PhaseOf(hook_log[p]) = phase}

\* C20: in a Render pass every WidgetViewWillRender hook has run before the
\* planner builds the list, every item's RenderDefaultFramebuffer before
\* the frame begins, every WidgetWillRender, RenderOnDemand and
\* WidgetDidRender of the items between the begin and the end of the
\* frame, and every WidgetViewDidRender hook after the end of the frame.
C20_PhasesInOrder ==
    /\ \A p \in DOMAIN hook_log : p > 1 => PhaseFollows(PhaseOf(hook_log[p - 1]), PhaseOf(hook_log[p]))
    /\ hook_log # <<>> => PhaseOf(hook_log[1]) = "will_render"
    /\ pc = "populate" =>
          /\ widget_list = <<>>
          /\ \A w \in Attached : \E p \in InPhase("will_render") : hook_log[p][2] = w
    /\ widget_list # <<>> => \A w \in Attached : \E p \in InPhase("will_render") : hook_log[p][2] = w
    /\ InPhase("begin_frame") # {} =>
          \A i \in DOMAIN widget_list : HookAt("RenderDefaultFramebuffer", widget_list[i].widget) # {}
    /\ InPhase("end_frame") # {} =>
          \A i \in DOMAIN widget_list :
              /\ HookAt("WidgetWillRender", widget_list[i].widget) # {}
              /\ HookAt("RenderOnDemand", widget_list[i].widget) # {}
              /\ HookAt("WidgetDidRender", widget_list[i].widget) # {}
    /\ pc = "done" => \A w \in Attached : \E p \in InPhase("did_render") : hook_log[p][2] = w

\* A pass over a list of three items is done and every phase has left its
\* entries in the hook log.
C20_Witness ==
    /\ pc = "done"
    /\ Len(widget_list) >= 3
    /\ Cardinality(InPhase("will_render")) >= 4
    /\ Cardinality(InPhase("offscreen")) >= 3
    /\ Cardinality(InPhase("onscreen")) >= 9
    /\ Cardinality(InPhase("did_render")) >= 4
    /\ InPhase("begin_frame") # {} /\ InPhase("end_frame") # {}

\* The descendants of a widget.
Descendants(w) == {d \in Widgets : w \in Ancestors(d)}

\* The hit test reaches the widget: it is attached and none of its
\* ancestors is hidden.
Reached(w) == w \in Attached /\ \A a \in Ancestors(w) : ~hidden_[a]

\* The widgets between a widget and its descendant d.
Between(w, d) == Descendants(w) \cap Ancestors(d)

\* A descendant of c that claims the point of the running hit test and is
\* not hidden.
ClaimingBelow(c) == {d \in Descendants(c) : d \in hit_claiming /\ ~hidden_[d]}

\* A descendant of c that claims the point, is not hidden and has no hidden
\* widget between c and itself.
ClaimingReachedBelow(c) == {d \in ClaimingBelow(c) : \A b \in Between(c, d) : ~hidden_[b]}

\* C21 as stated: when a child that is reached and not hidden and one of
\* its descendants that is not hidden both claim the point, the hit test
\* returns true with a responder that is not the child and not outside its
\* subtree unless it is below a later sibling; and a claiming descendant,
\* not hidden, of a later sibling that is not hidden keeps every earlier
\* sibling and its descendants from becoming the responder.
C21_DescendantBeforeChild ==
    pc = "hit_returned" =>
        \A c \in Attached \ {root_widget_} : (Reached(c) /\ ~hidden_[c]) =>
            /\ (c \in hit_claiming /\ ClaimingBelow(c) # {}) =>
                   (hit_returned /\ event_responder_ # c)
            /\ ClaimingBelow(c) # {} =>
                   \A e \in SeqToSet(children_[ParentOf(c)]) : ChildIndex(e) < ChildIndex(c) =>
                       (hit_returned /\ event_responder_ \notin ({e} \cup Descendants(e)))

\* C21, amended: the same for descendants that the hit test reaches below
\* the child, those with no hidden widget between the child and them.
C21_ReachedDescendantBeforeChild ==
    pc = "hit_returned" =>
        \A c \in Attached \ {root_widget_} : (Reached(c) /\ ~hidden_[c]) =>
            /\ (c \in hit_claiming /\ ClaimingReachedBelow(c) # {}) =>
                   (hit_returned /\ event_responder_ # c)
            /\ ClaimingReachedBelow(c) # {} =>
                   /\ hit_returned
                   /\ \A e \in SeqToSet(children_[ParentOf(c)]) : ChildIndex(e) < ChildIndex(c) =>
                          event_responder_ \notin ({e} \cup Descendants(e))
                   /\ (\A a \in {c} \cup Ancestors(c) : a # root_widget_ =>
                          \A l \in SeqToSet(children_[ParentOf(a)]) :
                              ChildIndex(l) > ChildIndex(a) => (l \notin hit_claiming /\ Descendants(l) \cap hit_claiming = {})) =>
                          event_responder_ \in Descendants(c)

\* Siblings X and Y under the root and a child D of Y, none hidden; X, Y
\* and D claim the point and the hit test has made D the responder.
C21_Witness ==
    /\ pc = "hit_returned"
    /\ \E x, y, d \in ChildWidgets : /\ children_[root_widget_] = <<x, y>>
                                    /\ children_[y] = <<d>>
                                    /\ hit_claiming = {x, y, d}
                                    /\ ~hidden_[x] /\ ~hidden_[y] /\ ~hidden_[d]
                                    /\ hit_returned /\ event_responder_ = d /\ hit_previous # d

\* C22: at every point of the onscreen pass the levels of the items on
\* the rendering stack ascend strictly from bottom to top, and right after
\* an item is pushed the stack holds exactly that item and the items of
\* its widget's ancestors, each above the item its parent_item names, up
\* to the root item.
C22_StackIsAncestorChain ==
    /\ \A i \in DOMAIN rendering_stack, j \in DOMAIN rendering_stack :
          i < j => rendering_stack[i].level < rendering_stack[j].level
    /\ \A i \in DOMAIN rendering_stack : \E k \in DOMAIN widget_list : widget_list[k] = rendering_stack[i]
    /\ pc = "render" =>
          /\ rendering_stack # <<>>
          /\ StackTop(rendering_stack) = widget_list[item_index]
          /\ rendering_stack[1].parent_item = NoWidget
          /\ rendering_stack[1].widget = root_widget_
          /\ \A i \in DOMAIN rendering_stack : i > 1 => rendering_stack[i].parent_item = rendering_stack[i - 1].widget
          /\ ItemWidgets(rendering_stack) = {widget_list[item_index].widget} \cup Ancestors(widget_list[item_index].widget)
          /\ Len(rendering_stack) = widget_list[item_index].level + 1

\* An item of level 2 has just been pushed on the items of its parent and
\* of the root, after the item of a sibling was popped.
C22_Witness ==
    /\ pc = "render"
    /\ Len(rendering_stack) = 3
    /\ \E v \in SeqToSet(finalized) : ParentOf(v) = ParentOf(StackTop(rendering_stack).widget)

\* Thread t is inside RenderNativeView: in its body, or in a Redraw() call
\* made from its body.
InRenderNativeView(t) == rpc[t] = "render" \/ nested[t]

\* The threads that are inside RenderNativeView of view v.
RenderingOn(v) == {t \in Threads : InRenderNativeView(t) /\ rview[t] = v}

\* C23: whatever the interleaving of the threads that call Redraw(), at
\* most one RenderNativeView call of a view is executing at any time, and
\* while one is executing is_redrawing_ of the view is true.
C23_OneRenderPerView ==
    \A v \in Views :
        /\ Cardinality(RenderingOn(v)) <= 1
        /\ RenderingOn(v) # {} => is_redrawing_[v]

\* A thread is running the second pass of a view while the other thread,
\* inside Redraw() on the same view, holds the mutex and is about to read
\* is_redrawing_.
C23_Witness ==
    \E t1 \in Threads, t2 \in Threads :
        /\ t1 # t2 /\ rview[t1] = rview[t2]
        /\ rpc[t1] = "render" /\ passes[rview[t1]] = 2
        /\ rpc[t2] = "check" /\ redraw_mutex = t2

\* Every Redraw() call has returned.
AllReturned == \A t \in Threads : rpc[t] = "idle"

\* C24: no redraw request is lost: after every Redraw() call on a view a
\* RenderNativeView pass of that view begins, at the moment of the call or
\* later, and once every Redraw() call has returned no view has a call
\* without such a pass and is_redrawing_ and waiting_for_redraw_ of every
\* view are false.
C24_NoRedrawLost ==
    /\ [](AllReturned => \A v \in Views : ~unserved[v] /\ ~is_redrawing_[v] /\ ~waiting_for_redraw_[v])
    /\ \A v \in Views : unserved[v] ~> ~unserved[v]

\* Every call has returned after three passes ran on a view, the third
\* for a call that arrived while the second was in progress.
C24_Witness ==
    /\ AllReturned
    /\ \E v \in Views : /\ passes[v] = 3 /\ arrived_first[v] >= 1 /\ arrived_later[v] >= 1
                       /\ ~unserved[v] /\ ~is_redrawing_[v] /\ ~waiting_for_redraw_[v]

\* The save points open in the drawing context: the saved states above
\* the state of nvgBeginFrame.
OpenSavePoints == Len(nvg_states) - 1

\* C25: during the onscreen pass the number of open save points of the
\* drawing context is the number of items on the rendering stack outside
\* a render callback and one more while RenderOnDemand runs, and it is
\* zero, with an empty stack, when the frame ends.
C25_SavePointsBalanced ==
    /\ pc \in {"pop", "render", "final_pop"} => OpenSavePoints = Len(rendering_stack)
    /\ pc = "callback" => OpenSavePoints = Len(rendering_stack) + 1
    /\ pc \in {"view_did_render", "done"} => (OpenSavePoints = 0 /\ rendering_stack = <<>>)

\* RenderOnDemand of an item of level 2 runs with three items stacked and
\* four save points open, after an earlier item was finalized.
C25_Witness ==
    /\ pc = "callback"
    /\ Len(rendering_stack) = 3
    /\ OpenSavePoints = 4
    /\ finalized # <<>>

\* C26: the scissor rectangle of every item that has a parent item lies
\* inside the parent item's scissor rectangle: its origin is not before
\* the parent's and its far edge not beyond the parent's, on both axes.
C26_ScissorInsideParentScissor ==
    \A i \in DOMAIN widget_list : widget_list[i].parent_item # NoWidget =>
        LET item == widget_list[i]
            parent == ItemOf(widget_list, item.parent_item)
        IN  /\ item.scissor_origin[1] >= parent.scissor_origin[1]
            /\ item.scissor_origin[2] >= parent.scissor_origin[2]
            /\ item.scissor_origin[1] + item.scissor_width <= parent.scissor_origin[1] + parent.scissor_width
            /\ item.scissor_origin[2] + item.scissor_height <= parent.scissor_origin[2] + parent.scissor_height

\* The planner has listed an item of level 2 whose widget overflows its
\* parent's scissor rectangle to the right and at the bottom, and has cut
\* its scissor at the parent's far edges.
C26_Witness ==
    /\ pc = "offscreen"
    /\ \E i \in DOMAIN widget_list :
          /\ widget_list[i].level = 2
          /\ LET item == widget_list[i]
                 parent == ItemOf(widget_list, item.parent_item)
                 kScaled == InheritedScale(item.widget) * scale_[item.widget]
             IN  /\ item.translated_origin[1] + item.width * kScaled > parent.scissor_origin[1] + parent.scissor_width
                 /\ item.translated_origin[2] + item.height * kScaled > parent.scissor_origin[2] + parent.scissor_height
                 /\ item.scissor_origin[1] + item.scissor_width = parent.scissor_origin[1] + parent.scissor_width
                 /\ item.scissor_origin[2] + item.scissor_height = parent.scissor_origin[2] + parent.scissor_height

\* C27: WidgetView::ShouldHandleEvent(point) returns true exactly when a
\* widget the hit test asks claims the point, and then the responder it
\* has set is a widget that claims the point; when it returns false
\* event_responder_ is what it was before the call, so the next
\* HandleEvent goes to that responder if it still belongs to the view; the
\* root widget is never the responder.
C27_ResponderSetExactlyOnTrue ==
    /\ [](event_responder_ # root_widget_)
    /\ [](pc = "hit_returned" =>
            /\ hit_returned <=> (\E c \in hit_claiming : c # root_widget_ /\ Reached(c))
            /\ hit_returned => (event_responder_ \in hit_claiming /\ Reached(event_responder_))
            /\ ~hit_returned => event_responder_ = hit_previous)
    /\ [][(pc = "idle" /\ pc' = "handled" /\ event_responder_ # NoWidget /\ widget_view_[event_responder_] = this_view) =>
             (handled_to' = <<event_responder_>> /\ event_responder_' = event_responder_)]_vars

\* A hit test in which only a widget outside the tree claims the point has
\* returned false and left the responder of an earlier hit test in place.
C27_Witness ==
    /\ pc = "hit_returned"
    /\ ~hit_returned
    /\ hit_claiming # {}
    /\ hit_previous \in Attached \ {root_widget_}
    /\ event_responder_ = hit_previous

\* C28: with the root widget at (0, 0), while an item is open in the
\* onscreen pass the drawing context state saved for it places the origin
\* of its widget at the item's translated_origin, the position the planner
\* computed: the nested nvgTranslate by the item origin and nvgScale by the
\* item scale agree with the parent's translated_origin plus the widget's
\* position times the inherited scale.
C28_ExecutorPlacesAtTranslatedOrigin ==
    (x_[root_widget_] = 0 /\ y_[root_widget_] = 0 /\ pc \in {"pop", "render", "callback", "final_pop"}) =>
        /\ Len(nvg_states) > Len(rendering_stack)
        /\ \A k \in DOMAIN rendering_stack :
              /\ nvg_states[k + 1].ox = rendering_stack[k].translated_origin[1]
              /\ nvg_states[k + 1].oy = rendering_stack[k].translated_origin[2]
              /\ nvg_states[k + 1].sc = InheritedScale(rendering_stack[k].widget) * scale_[rendering_stack[k].widget]

\* An item of level 2 has been opened whose widget is offset from its
\* parent, the parent being offset and scaled by 2, so that the widget's
\* position counts twice.
C28_Witness ==
    /\ pc = "render"
    /\ Len(rendering_stack) = 3
    /\ LET item == StackTop(rendering_stack)
       IN  /\ item.origin[1] > 0
           /\ scale_[item.parent_item] = 2
           /\ x_[item.parent_item] > 0 /\ y_[item.parent_item] > 0
           /\ item.translated_origin[1] = x_[item.parent_item] + 2 * item.origin[1]
           /\ nvg_states[Len(nvg_states)].ox = item.translated_origin[1]

====
